---- MODULE Spec2Model ----
(***************************************************************************)
(* The command manager of the bot core (src/unnamed/part_000): loading of  *)
(* command sources into the registry commands_, derivation of the settings *)
(* category, dispatch of a message to the first command whose aliases hold *)
(* its command token, and the classification of handler failures.          *)
(*                                                                         *)
(* Text is modelled as a sequence of one-character strings, so that        *)
(* String.replace, indexOf, substring, trim and toLowerCase are computed   *)
(* as JavaScript computes them.  A literal fragment of a log description   *)
(* is kept as one element of such a sequence; string concatenation is \o.  *)
(***************************************************************************)
EXTENDS Integers, Sequences, FiniteSets, TLC

VARIABLES
  directory,          \* the command sources found in this.directory_
  reloadAction_,      \* this.reloadAction_: TRUE iff a reload action was supplied
  hostConfig,         \* the configuration the host hands to load and processInput
  commands_,          \* this.commands_
  settingsCategory_,  \* this.settingsCategory_
  logger_,            \* the calls made on this.logger_, in order
  channel,            \* the msg.channel.createMessage calls, in order
  pendingLoads,       \* getFilesInDirectory promises not settled yet
  inFlight,           \* handler promises handed off by processInput, not settled yet
  unhandled,          \* exceptions and rejections nothing caught
  ret,                \* the last step taken, with its inputs and its result
  callsLeft           \* load and processInput calls the environment may still make

vars == <<directory, reloadAction_, hostConfig, commands_, settingsCategory_, logger_, channel,
          pendingLoads, inFlight, unhandled, ret, callsLeft>>

---------------------------------------------------------------------------
(* Bounds of the model *)

MaxFiles == 3        \* files in the directory, when the loader is checked alone
MaxLoads == 2        \* load() calls, when the loader is checked alone
MaxSystemFiles == 1  \* files in the directory, when loads and messages interleave
MaxCalls == 4        \* load() and processInput() calls, when they interleave
MaxMsgLen == 5       \* characters of a message, when the parsing is checked
MaxClassifyCalls == 1  \* processInput() calls, when the classifier is checked

---------------------------------------------------------------------------
(* JavaScript values and strings *)

Undefined == <<"%undefined%">>
ObjectValue == <<"%object%">>
EmptyString == <<>>

\* JavaScript truthiness of a string-or-undefined value
Truthy(v) == v # Undefined /\ v # EmptyString

\* a test that takes no result for a string
IsStringNever(v) == FALSE

\* typeof v === typeof ''
IsString(v) == v # Undefined /\ v # ObjectValue

IdeographicSpace == "U+3000"
Space == " "

\* the white space String.prototype.trim removes, among the characters modelled
WhiteSpace == {Space, IdeographicSpace}

ToLowerCaseChar(c) ==
  CASE c = "A" -> "a"
    [] c = "B" -> "b"
    [] OTHER -> c

\* String.prototype.toLowerCase
ToLowerCase(s) == [i \in 1..Len(s) |-> ToLowerCaseChar(s[i])]

\* String.prototype.indexOf(c) for a one-character c: 0-based, -1 when absent
IndexOf(s, c) ==
  IF \E i \in 1..Len(s) : s[i] = c
  THEN (CHOOSE i \in 1..Len(s) : s[i] = c /\ \A j \in 1..(i - 1) : s[j] # c) - 1
  ELSE -1

\* String.prototype.replace(c, d) with a string pattern: the first occurrence only
Replace(s, c, d) ==
  LET i == IndexOf(s, c)
  IN IF i = -1 THEN s ELSE [s EXCEPT ![i + 1] = d]

\* String.prototype.substring(from, to), 0 <= from <= to <= length
Substring(s, from, to) == SubSeq(s, from + 1, to)

RECURSIVE TrimStart(_)
TrimStart(s) ==
  IF s # <<>> /\ Head(s) \in WhiteSpace THEN TrimStart(Tail(s)) ELSE s

RECURSIVE TrimEnd(_)
TrimEnd(s) ==
  IF s # <<>> /\ s[Len(s)] \in WhiteSpace
  THEN TrimEnd(SubSeq(s, 1, Len(s) - 1))
  ELSE s

\* String.prototype.trim
Trim(s) == TrimEnd(TrimStart(s))

\* Array.prototype.indexOf(x) !== -1
Includes(array, x) == \E i \in 1..Len(array) : array[i] = x

\* the sequence without its i-th element
RemoveAt(seq, i) == SubSeq(seq, 1, i - 1) \o SubSeq(seq, i + 1, Len(seq))

---------------------------------------------------------------------------
(* Errors: what a throw statement or a rejected promise carries *)

\* the absent optional argument of logFailure
NoError ==
  [type |-> "undefined", isPublicError |-> FALSE, publicMessage |-> Undefined,
   logDescription |-> Undefined, message |-> Undefined, internalErr |-> Undefined]

\* new Error(text)
PlainError(text) ==
  [type |-> "object", isPublicError |-> FALSE, publicMessage |-> Undefined,
   logDescription |-> Undefined, message |-> text, internalErr |-> Undefined]

---------------------------------------------------------------------------
(* Command sources and the Command wrapper *)

AllowAlias == <<"}allow">>
UnrestrictAlias == <<"}unrestrict">>
BanAlias == <<"}ban">>
SettingsAlias == <<"}settings">>
ReloadAlias == <<"}reload">>

\* the alias lists a command source may declare
AliasLists ==
  { <<>>,
    << <<"a">> >>,
    << <<"A">> >>,
    << AllowAlias >>,
    << <<"a", "b">>, <<"a">> >> }

UniqueIds == {Undefined, <<"id1">>}

\* the alias lists of the command sources that declare a uniqueId
IdentifiedAliasLists ==
  { << <<"a">> >>,
    << AllowAlias >>,
    << <<"a", "b">>, <<"a">> >> }

\* what reload(commandFile) gives: a module that fails to load, or the
\* command information it exports
CommandSources ==
  [loads : {FALSE}, commandAliases : {<<>>}, uniqueId : {Undefined}]
    \cup [loads : {TRUE}, commandAliases : AliasLists, uniqueId : {Undefined}]
    \cup [loads : {TRUE}, commandAliases : IdentifiedAliasLists,
          uniqueId : UniqueIds \ {Undefined}]

\* the path getFilesInDirectory gives for the i-th file
FileName(i) == <<"file", ToString(i)>>

Directories ==
  UNION { [1..n -> CommandSources] : n \in 0..MaxFiles }

\* new Command(commandInformation) throws on a definition without aliases
CommandThrows(commandInformation) == commandInformation.commandAliases = <<>>

\* new Command(commandInformation): the aliases it exposes are lower-cased;
\* origin names what the command wraps
Command(commandInformation, origin) ==
  [aliases |-> [k \in 1..Len(commandInformation.commandAliases) |->
                  ToLowerCase(commandInformation.commandAliases[k])],
   uniqueId |-> commandInformation.uniqueId,
   origin |-> origin]

AllowCommand == [commandAliases |-> <<AllowAlias>>, uniqueId |-> Undefined]
UnrestrictCommand == [commandAliases |-> <<UnrestrictAlias>>, uniqueId |-> Undefined]
BanCommand == [commandAliases |-> <<BanAlias>>, uniqueId |-> Undefined]
SettingsCommand == [commandAliases |-> <<SettingsAlias>>, uniqueId |-> Undefined]
ReloadCommand == [commandAliases |-> <<ReloadAlias>>, uniqueId |-> Undefined]

BuiltInOrigins ==
  {<<"AllowCommand">>, <<"UnrestrictCommand">>, <<"BanCommand">>,
   <<"SettingsCommand">>, <<"ReloadCommand">>}

---------------------------------------------------------------------------
(* The logger *)

LogFailure(title, description, err) ==
  [fn |-> "logFailure", title |-> title, description |-> description, err |-> err]

LogInputReaction(title, msg, note, success, description) ==
  [fn |-> "logInputReaction", title |-> title, msg |-> msg, note |-> note,
   success |-> success, description |-> description]

---------------------------------------------------------------------------
(* Loading *)

\* getDuplicateAlias(command, otherCommands): the first alias of command
\* that some other command has, undefined when there is none
RECURSIVE DuplicateAliasFrom(_, _, _)
DuplicateAliasFrom(aliases, i, otherCommands) ==
  IF i > Len(aliases) THEN Undefined
  ELSE IF \E k \in 1..Len(otherCommands) : Includes(otherCommands[k].aliases, aliases[i])
       THEN aliases[i]
       ELSE DuplicateAliasFrom(aliases, i + 1, otherCommands)

\* a scan that looks at the first alias of the candidate only
getDuplicateAliasFirstOnly(command, otherCommands) ==
  IF \E k \in 1..Len(otherCommands) : Includes(otherCommands[k].aliases, command.aliases[1])
  THEN command.aliases[1]
  ELSE Undefined

\* a scan that looks at the command registered last only
getDuplicateAliasOfLast(command, otherCommands) ==
  IF otherCommands = <<>> THEN Undefined
  ELSE DuplicateAliasFrom(command.aliases, 1, <<otherCommands[Len(otherCommands)]>>)

getDuplicateAlias(command, otherCommands) ==
  DuplicateAliasFrom(command.aliases, 1, otherCommands)

createSettingsHierarchyForCommand(userCommand) ==
  [type |-> "SETTING",
   name |-> userCommand.aliases[1] \o <<"_enabled">>,
   description |-> <<"This setting controls whether the ">> \o userCommand.aliases[1]
                     \o <<" command (and all of its aliases) is allowed to be used or not.">>,
   valueType |-> "BOOLEAN",
   defaultDatabaseFacingValue |-> TRUE]

createSettingsHierarchyForCommands(userCommands) ==
  [i \in 1..Len(userCommands) |-> createSettingsHierarchyForCommand(userCommands[i])]

createSettingsCategoryForCommands(userCommands) ==
  [type |-> "CATEGORY",
   name |-> "commands",
   children |-> createSettingsHierarchyForCommands(userCommands)]

\* this.settingsCategory_ before the first load has assigned it
NoSettingsCategory == [type |-> "undefined"]

LoaderTitle == <<"COMMAND MANAGER">>
FailedToLoadMessageStart == <<"Failed to load command from file: ">>

\* a load() without the uniqueId test
UniqueIdNeverTaken(command, commands) == FALSE

\* the uniqueId test of load(): the candidate has a uniqueId that a loaded command has
UniqueIdTaken(command, commands) ==
  /\ Truthy(command.uniqueId)
  /\ \E k \in 1..Len(commands) : commands[k].uniqueId = command.uniqueId

\* one iteration of the for loop of load(): the registry and the log after
\* commandFile (the i-th file, holding source) has been processed
LoadFile(i, source, commands, log) ==
  LET commandFile == FileName(i)
      command == Command(source, commandFile)
      duplicateAlias == getDuplicateAlias(command, commands)
  IN IF ~source.loads
     THEN [commands |-> commands,
           log |-> Append(log, LogFailure(LoaderTitle, FailedToLoadMessageStart \o commandFile,
                                          PlainError(<<"Cannot find module">>)))]
     ELSE IF CommandThrows(source)
     THEN [commands |-> commands,
           log |-> Append(log, LogFailure(LoaderTitle, FailedToLoadMessageStart \o commandFile,
                                          PlainError(<<"Command does not have command aliases">>)))]
     ELSE IF UniqueIdTaken(command, commands)
     THEN [commands |-> commands,
           log |-> Append(log, LogFailure(LoaderTitle,
                     FailedToLoadMessageStart \o commandFile \o <<". Error: uniqueId: ">>
                       \o command.uniqueId \o <<" not unique">>, NoError))]
     ELSE IF Truthy(duplicateAlias)
     THEN [commands |-> commands,
           log |-> Append(log, LogFailure(LoaderTitle,
                     FailedToLoadMessageStart \o commandFile \o <<". Error: alias: ">>
                       \o duplicateAlias \o <<" is not unique">>, NoError))]
     ELSE [commands |-> Append(commands, command), log |-> log]

\* a loop that a failing construction ends: try around the loop, not in it
RECURSIVE LoadFilesAbortOnThrow(_, _, _, _)
LoadFilesAbortOnThrow(commandFiles, i, commands, log) ==
  IF i > Len(commandFiles) THEN [commands |-> commands, log |-> log]
  ELSE LET r == LoadFile(i, commandFiles[i], commands, log)
       IN IF ~commandFiles[i].loads \/ CommandThrows(commandFiles[i])
          THEN r
          ELSE LoadFilesAbortOnThrow(commandFiles, i + 1, r.commands, r.log)

\* the for loop of load() over commandFiles, from the i-th file on
RECURSIVE LoadFiles(_, _, _, _)
LoadFiles(commandFiles, i, commands, log) ==
  IF i > Len(commandFiles) THEN [commands |-> commands, log |-> log]
  ELSE LET r == LoadFile(i, commandFiles[i], commands, log)
       IN LoadFiles(commandFiles, i + 1, r.commands, r.log)

\* the built-in commands load() pushes after the user commands
BuiltIns(withReload) ==
  << Command(AllowCommand, <<"AllowCommand">>),
     Command(UnrestrictCommand, <<"UnrestrictCommand">>),
     Command(BanCommand, <<"BanCommand">>),
     Command(SettingsCommand, <<"SettingsCommand">>) >>
  \o (IF withReload THEN << Command(ReloadCommand, <<"ReloadCommand">>) >> ELSE <<>>)

\* load(): the synchronous part, up to the call of getFilesInDirectory.  The
\* pending promise remembers what the manager held when load() was called.
Load ==
  /\ callsLeft > 0
  /\ callsLeft' = callsLeft - 1
  /\ commands_' = <<>>
  /\ pendingLoads' = Append(pendingLoads,
       [registry |-> commands_, settingsCategory |-> settingsCategory_])
  /\ ret' = [op |-> "load"]
  /\ UNCHANGED <<directory, reloadAction_, hostConfig, settingsCategory_, logger_, channel,
                 inFlight, unhandled>>

\* load(): the then callback, run when the i-th pending getFilesInDirectory
\* promise resolves with the files of the directory
LoadThen(i) ==
  /\ i \in 1..Len(pendingLoads)
  /\ pendingLoads' = RemoveAt(pendingLoads, i)
  /\ LET loaded == LoadFiles(directory, 1, commands_, logger_)
         userCommands == loaded.commands
     IN /\ commands_' = userCommands \o BuiltIns(reloadAction_)
        /\ settingsCategory_' = createSettingsCategoryForCommands(userCommands)
        /\ logger_' = loaded.log
        /\ ret' = [op |-> "load.then", call |-> pendingLoads[i], before |-> commands_,
                   logged |-> Len(logger_), userCommands |-> userCommands]
  /\ UNCHANGED <<directory, reloadAction_, hostConfig, channel, inFlight, unhandled, callsLeft>>

\* load(): the catch callback, run when the i-th pending getFilesInDirectory
\* promise rejects
LoadCatch(i) ==
  /\ i \in 1..Len(pendingLoads)
  /\ pendingLoads' = RemoveAt(pendingLoads, i)
  /\ logger_' = Append(logger_, LogFailure(LoaderTitle, <<"Error loading commands.">>,
                                           PlainError(<<"ENOENT">>)))
  /\ ret' = [op |-> "load.catch", call |-> pendingLoads[i], logged |-> Len(logger_)]
  /\ UNCHANGED <<directory, reloadAction_, hostConfig, commands_, settingsCategory_, channel,
                 inFlight, unhandled, callsLeft>>

---------------------------------------------------------------------------
(* The error classifier *)

\* new PublicError(publicMessage, deleteAutomatically, logDescription, internalErr)
PublicError(publicMessage, logDescription, internalErr) ==
  [type |-> "object", isPublicError |-> TRUE, publicMessage |-> publicMessage,
   logDescription |-> logDescription,
   message |-> IF publicMessage = Undefined THEN EmptyString ELSE publicMessage,
   internalErr |-> internalErr]

\* throw 'text': a primitive string, none of whose properties is defined
ThrownString(text) ==
  [type |-> "string", isPublicError |-> FALSE, publicMessage |-> Undefined,
   logDescription |-> Undefined, message |-> Undefined, internalErr |-> Undefined,
   text |-> text]

\* an object that is no PublicError, with the properties handleCommandError reads
ErrorObject(publicMessage, logDescription, message) ==
  [type |-> "object", isPublicError |-> FALSE, publicMessage |-> publicMessage,
   logDescription |-> logDescription, message |-> message, internalErr |-> Undefined]

MissingPermissions == "Missing Permissions"

\* the host configurations processInput may be given
Configs ==
  [missingPermissionsErrorMessage : {Undefined, <<"no perms">>},
   genericErrorMessage : {Undefined, <<"generic">>}]

\* a host configuration that sets neither message
NoConfig == [missingPermissionsErrorMessage |-> Undefined, genericErrorMessage |-> Undefined]

CommandTitle == <<"COMMAND">>

\* err.message.indexOf('Missing Permissions') !== -1
MentionsMissingPermissions(err) == Includes(err.message, MissingPermissions)

\* handleCommandError reads a property of undefined (line 14), or calls
\* indexOf on a message that is undefined (line 16): a TypeError
handleCommandErrorThrows(err) ==
  \/ err.type = "undefined"
  \/ ~Truthy(err.publicMessage) /\ err.message = Undefined

\* lines 14-21: publicMessage and errDescription after the permissions rule
PermissionsRuleApplies(err, config) ==
  /\ ~Truthy(err.publicMessage)
  /\ MentionsMissingPermissions(err)
  /\ Truthy(config.missingPermissionsErrorMessage)

\* lines 14-24: the log description
ErrDescription(err, config) ==
  IF Truthy(err.logDescription) THEN err.logDescription
  ELSE IF PermissionsRuleApplies(err, config) THEN <<"Missing permissions">>
  ELSE <<"Exception or promise rejection">>

\* lines 15-27: the public message
PublicMessage(err, config) ==
  IF PermissionsRuleApplies(err, config) THEN config.missingPermissionsErrorMessage
  ELSE IF Truthy(err.publicMessage) THEN err.publicMessage
  ELSE config.genericErrorMessage

\* a cause that is the error itself, whatever its class
InternalErrAlwaysErr(err) == err

\* line 28: err instanceof PublicError ? err.internalErr : err, as an error,
\* NoError when it is undefined
InternalErr(err) ==
  IF err.isPublicError
  THEN (IF err.internalErr = Undefined THEN NoError ELSE PlainError(err.internalErr))
  ELSE err

\* a classifier that reports a failure twice
handleCommandErrorReportsTwice(msg, err, config) ==
  LET publicMessage == PublicMessage(err, config)
      reaction == LogInputReaction(CommandTitle, msg, EmptyString, FALSE,
                                   ErrDescription(err, config))
  IN [sent |-> IF Truthy(publicMessage) THEN <<publicMessage, publicMessage>> ELSE <<>>,
      logged |-> <<reaction, reaction>>]

\* handleCommandError(msg, err, config, logger) when it does not throw: the
\* messages it sends and the log entries it writes
handleCommandError(msg, err, config) ==
  LET publicMessage == PublicMessage(err, config)
      internalErr == InternalErr(err)
  IN [sent |-> IF Truthy(publicMessage) THEN <<publicMessage>> ELSE <<>>,
      logged |-> <<LogInputReaction(CommandTitle, msg, EmptyString, FALSE,
                                    ErrDescription(err, config))>>
                 \o (IF internalErr # NoError
                     THEN <<LogFailure(CommandTitle,
                              <<"Command '">> \o msg
                                \o <<"' threw an exception or returned a promise that rejected.">>,
                              internalErr)>>
                     ELSE <<>>)]

---------------------------------------------------------------------------
(* Dispatch *)

\* processInput, lines 146-147
MsgContent(content) == Replace(content, IdeographicSpace, Space)

SpaceIndex(content) == IndexOf(MsgContent(content), Space)

\* a command text that keeps the case of the message
CommandTextKeepsCase(content) ==
  LET msgContent == MsgContent(content)
      spaceIndex == SpaceIndex(content)
  IN IF spaceIndex = -1 THEN msgContent ELSE Substring(msgContent, 0, spaceIndex)

\* processInput, lines 148-154
CommandText(content) ==
  LET msgContent == MsgContent(content)
      spaceIndex == SpaceIndex(content)
  IN ToLowerCase(IF spaceIndex = -1 THEN msgContent
                 ELSE Substring(msgContent, 0, spaceIndex))

\* processInput, lines 158-161
Suffix(content) ==
  LET msgContent == MsgContent(content)
      spaceIndex == SpaceIndex(content)
  IN IF spaceIndex # -1
     THEN Trim(Substring(msgContent, spaceIndex + 1, Len(msgContent)))
     ELSE EmptyString

\* a scan that starts at the second command
MatchIndexSkipsFirst(commands, commandText) ==
  IF \E k \in 2..Len(commands) : Includes(commands[k].aliases, commandText)
  THEN CHOOSE k \in 2..Len(commands) :
         /\ Includes(commands[k].aliases, commandText)
         /\ \A j \in 2..(k - 1) : ~Includes(commands[j].aliases, commandText)
  ELSE 0

\* the for loop of processInput: the index of the first command with the
\* command text among its aliases, 0 when the loop ends without one
MatchIndex(commands, commandText) ==
  IF \E k \in 1..Len(commands) : Includes(commands[k].aliases, commandText)
  THEN CHOOSE k \in 1..Len(commands) :
         /\ Includes(commands[k].aliases, commandText)
         /\ \A j \in 1..(k - 1) : ~Includes(commands[j].aliases, commandText)
  ELSE 0

\* the command the for loop of processInput hands the message to
Selected(commands, content) == commands[MatchIndex(commands, CommandText(content))]

\* processInput(bot, msg, config) on a message no command claims
ProcessInputUnmatched(content) ==
  /\ callsLeft > 0
  /\ MatchIndex(commands_, CommandText(content)) = 0
  /\ callsLeft' = callsLeft - 1
  /\ ret' = [op |-> "processInput", content |-> content,
             commandText |-> CommandText(content), returned |-> "false",
             handled |-> FALSE, command |-> Undefined, suffix |-> Undefined,
             index |-> 0, err |-> NoError, logged |-> Len(logger_), sent |-> Len(channel)]
  /\ UNCHANGED <<directory, reloadAction_, hostConfig, commands_, settingsCategory_, logger_,
                 channel, pendingLoads, inFlight, unhandled>>

\* a processInput that waits for the handler and logs before it returns
ProcessInputAwaits(content) ==
  /\ callsLeft > 0
  /\ MatchIndex(commands_, CommandText(content)) # 0
  /\ callsLeft' = callsLeft - 1
  /\ logger_' = Append(logger_, LogInputReaction(CommandTitle, content, EmptyString,
                                                 TRUE, Undefined))
  /\ ret' = [op |-> "processInput", content |-> content,
             commandText |-> CommandText(content), returned |-> "true",
             handled |-> TRUE, command |-> Selected(commands_, content).origin,
             suffix |-> Suffix(content),
             index |-> MatchIndex(commands_, CommandText(content)), err |-> NoError,
             logged |-> Len(logger_), sent |-> Len(channel)]
  /\ UNCHANGED <<directory, reloadAction_, hostConfig, commands_, settingsCategory_,
                 channel, pendingLoads, inFlight, unhandled>>

\* processInput(bot, msg, config) when command.handle returns a value or a
\* promise: the then and catch callbacks are attached and run later
ProcessInputHandOff(content) ==
  /\ callsLeft > 0
  /\ MatchIndex(commands_, CommandText(content)) # 0
  /\ callsLeft' = callsLeft - 1
  /\ inFlight' = Append(inFlight, [msg |-> content])
  /\ ret' = [op |-> "processInput", content |-> content,
             commandText |-> CommandText(content), returned |-> "true",
             handled |-> TRUE, command |-> Selected(commands_, content).origin,
             suffix |-> Suffix(content),
             index |-> MatchIndex(commands_, CommandText(content)), err |-> NoError,
             logged |-> Len(logger_), sent |-> Len(channel)]
  /\ UNCHANGED <<directory, reloadAction_, hostConfig, commands_, settingsCategory_, logger_,
                 channel, pendingLoads, unhandled>>

\* processInput(bot, msg, config) when command.handle throws err: the catch
\* block calls handleCommandError before processInput returns
ProcessInputThrows(content, err) ==
  /\ callsLeft > 0
  /\ MatchIndex(commands_, CommandText(content)) # 0
  /\ callsLeft' = callsLeft - 1
  /\ IF handleCommandErrorThrows(err)
     THEN /\ unhandled' = Append(unhandled, [from |-> "processInput", msg |-> content])
          /\ ret' = [op |-> "processInput", content |-> content,
                     commandText |-> CommandText(content), returned |-> "threw",
                     handled |-> TRUE, command |-> Selected(commands_, content).origin,
                     suffix |-> Suffix(content),
                     index |-> MatchIndex(commands_, CommandText(content)), err |-> err,
                     logged |-> Len(logger_), sent |-> Len(channel)]
          /\ UNCHANGED <<logger_, channel>>
     ELSE /\ channel' = channel \o handleCommandError(content, err, hostConfig).sent
          /\ logger_' = logger_ \o handleCommandError(content, err, hostConfig).logged
          /\ ret' = [op |-> "processInput", content |-> content,
                     commandText |-> CommandText(content), returned |-> "true",
                     handled |-> TRUE, command |-> Selected(commands_, content).origin,
                     suffix |-> Suffix(content),
                     index |-> MatchIndex(commands_, CommandText(content)), err |-> err,
                     logged |-> Len(logger_), sent |-> Len(channel)]
          /\ UNCHANGED unhandled
  /\ UNCHANGED <<directory, reloadAction_, hostConfig, commands_, settingsCategory_,
                 pendingLoads, inFlight>>

\* the then callback of processInput: the i-th pending handler gave result
HandlerResolves(i, result) ==
  /\ i \in 1..Len(inFlight)
  /\ inFlight' = RemoveAt(inFlight, i)
  /\ logger_' = Append(logger_, LogInputReaction(CommandTitle, inFlight[i].msg, EmptyString,
                                                 ~IsString(result), result))
  /\ ret' = [op |-> "handle.then", msg |-> inFlight[i].msg, index |-> i, result |-> result,
             logged |-> Len(logger_), sent |-> Len(channel)]
  /\ UNCHANGED <<directory, reloadAction_, hostConfig, commands_, settingsCategory_, channel,
                 pendingLoads, unhandled, callsLeft>>

\* the catch callback of processInput: the i-th pending handler rejected with err
HandlerRejects(i, err) ==
  /\ i \in 1..Len(inFlight)
  /\ inFlight' = RemoveAt(inFlight, i)
  /\ IF handleCommandErrorThrows(err)
     THEN /\ unhandled' = Append(unhandled, [from |-> "handle.catch", msg |-> inFlight[i].msg])
          /\ UNCHANGED <<logger_, channel>>
     ELSE /\ channel' = channel \o handleCommandError(inFlight[i].msg, err, hostConfig).sent
          /\ logger_' = logger_ \o handleCommandError(inFlight[i].msg, err, hostConfig).logged
          /\ UNCHANGED unhandled
  /\ ret' = [op |-> "handle.catch", msg |-> inFlight[i].msg, index |-> i, err |-> err,
             logged |-> Len(logger_), sent |-> Len(channel)]
  /\ UNCHANGED <<directory, reloadAction_, hostConfig, commands_, settingsCategory_,
                 pendingLoads, callsLeft>>

---------------------------------------------------------------------------
(* The loader alone: any directory, loads that may overlap *)

InitLoader ==
  /\ directory \in Directories
  /\ reloadAction_ \in BOOLEAN
  /\ hostConfig = NoConfig
  /\ commands_ = <<>>
  /\ settingsCategory_ = NoSettingsCategory
  /\ logger_ = <<>>
  /\ channel = <<>>
  /\ pendingLoads = <<>>
  /\ inFlight = <<>>
  /\ unhandled = <<>>
  /\ ret = [op |-> "constructor"]
  /\ callsLeft = MaxLoads

NextLoader ==
  \/ Load
  \/ \E i \in 1..MaxLoads : LoadThen(i)
  \/ \E i \in 1..MaxLoads : LoadCatch(i)

SpecLoader == InitLoader /\ [][NextLoader]_vars

---------------------------------------------------------------------------
(* The whole manager: loads, reloads and messages interleaved *)

\* sources that load, among which one shadows a built-in command
SystemSources ==
  {s \in CommandSources : /\ s.loads
                          /\ s.uniqueId = Undefined
                          /\ s.commandAliases \in { << <<"a">> >>, << AllowAlias >> }}

SystemDirectories ==
  UNION { [1..n -> SystemSources] : n \in 0..MaxSystemFiles }

\* the messages the transport delivers
SystemMessages ==
  { <<"A", IdeographicSpace, "b">>, <<"b">>, AllowAlias }

\* the host sets a generic error message or none
SystemConfigs == {c \in Configs : c.missingPermissionsErrorMessage = Undefined}

\* what a handler returns, or its promise resolves with
HandlerResults == {Undefined, <<"text">>}

\* what a handler throws, or its promise rejects with
HandlerErrors ==
  { PublicError(<<"public">>, <<"described">>, Undefined),
    PlainError(<<"boom">>),
    ThrownString(<<"oops">>) }

Init ==
  /\ directory \in SystemDirectories
  /\ reloadAction_ = TRUE
  /\ hostConfig \in SystemConfigs
  /\ commands_ = <<>>
  /\ settingsCategory_ = NoSettingsCategory
  /\ logger_ = <<>>
  /\ channel = <<>>
  /\ pendingLoads = <<>>
  /\ inFlight = <<>>
  /\ unhandled = <<>>
  /\ ret = [op |-> "constructor"]
  /\ callsLeft = MaxCalls

Next ==
  \/ Load
  \/ \E i \in 1..MaxCalls : LoadThen(i)
  \/ \E i \in 1..MaxCalls : LoadCatch(i)
  \/ \E content \in SystemMessages :
       ProcessInputUnmatched(content)
  \/ \E content \in SystemMessages :
       ProcessInputHandOff(content)
  \/ \E content \in SystemMessages, err \in HandlerErrors :
       ProcessInputThrows(content, err)
  \/ \E i \in 1..MaxCalls, result \in HandlerResults : HandlerResolves(i, result)
  \/ \E i \in 1..MaxCalls, err \in HandlerErrors : HandlerRejects(i, err)

Spec == Init /\ [][Next]_vars

---------------------------------------------------------------------------
(* Vocabulary of the properties *)

IsUserCommand(command) == command.origin \notin BuiltInOrigins

\* the user-defined commands of a registry, in registration order
UserDefined(commands) == SelectSeq(commands, IsUserCommand)

\* the entries the last load.then callback wrote
LoadLog == SubSeq(logger_, ret.logged + 1, Len(logger_))

\* the entry reports a failure to load the i-th file
NamesFile(entry, i) ==
  /\ entry.fn = "logFailure"
  /\ Len(entry.description) >= 3
  /\ SubSeq(entry.description, 1, 3) = FailedToLoadMessageStart \o FileName(i)

EntriesNaming(i) ==
  LET log == LoadLog
  IN {k \in 1..Len(log) : NamesFile(log[k], i)}

\* a command wrapping the i-th file is in the registry
Registered(i) == \E k \in 1..Len(commands_) : commands_[k].origin = FileName(i)

\* the last load.then callback pushed a command wrapping the i-th file
RegisteredByLastLoad(i) ==
  \E k \in (Len(ret.before) + 1)..Len(ret.userCommands) :
    ret.userCommands[k].origin = FileName(i)

ConstructionFails(source) == ~source.loads \/ source.commandAliases = <<>>

\* the aliases of a source as its command exposes them: in lower case
Aliases(source) ==
  [k \in 1..Len(source.commandAliases) |-> ToLowerCase(source.commandAliases[k])]

SharesAlias(s, t) ==
  \E a \in 1..Len(s.commandAliases), b \in 1..Len(t.commandAliases) :
    Aliases(s)[a] = Aliases(t)[b]

\* the i-th file was dealt with by the last load.then callback: registered
\* or reported, and only once
Processed(i) ==
  \/ RegisteredByLastLoad(i) /\ EntriesNaming(i) = {}
  \/ ~RegisteredByLastLoad(i) /\ Cardinality(EntriesNaming(i)) = 1

\* the last load.then callback went through the files in their order
InSourceOrder ==
  /\ LET log == LoadLog
     IN \A k \in 1..Len(log) : \A l \in (k + 1)..Len(log) :
          \A i \in 1..Len(directory) :
            NamesFile(log[k], i) =>
              \A j \in 1..Len(directory) : NamesFile(log[l], j) => i < j
  /\ \A k \in (Len(ret.before) + 1)..Len(ret.userCommands) :
       \A l \in (k + 1)..Len(ret.userCommands) :
         \A i \in 1..Len(directory) :
           ret.userCommands[k].origin = FileName(i) =>
             \A j \in 1..Len(directory) :
               ret.userCommands[l].origin = FileName(j) => i < j

---------------------------------------------------------------------------
(* Properties of the loader *)

\* C1: whenever a load has completed, any two distinct commands of the
\* registry, user-defined or built-in, have disjoint aliases, and differing
\* uniqueIds when both have one.
C1_RegistryUnique ==
  \A i, j \in 1..Len(commands_) :
    i # j =>
      /\ \A a \in 1..Len(commands_[i].aliases) :
           ~Includes(commands_[j].aliases, commands_[i].aliases[a])
      /\ (Truthy(commands_[i].uniqueId) /\ Truthy(commands_[j].uniqueId)
            => commands_[i].uniqueId # commands_[j].uniqueId)

\* C3: when load() is called on a manager that holds a loaded registry and
\* the directory enumeration fails, the failure is logged once and the
\* registry and the settings category are what they were before the call.
C3_EnumerationFailurePreservesState ==
  ret.op = "load.catch" /\ ret.call.registry # <<>> =>
    /\ Len(logger_) = ret.logged + 1
    /\ commands_ = ret.call.registry
    /\ settingsCategory_ = ret.call.settingsCategory

\* C4: load() never rejects; every source whose construction fails is
\* reported by one failure entry and skipped, every other source is still
\* processed, in order, and the load completes with the built-ins appended
\* and the settings category set.
C4_ConstructionFailuresAreSkipped ==
  ret.op = "load.then" =>
    /\ \A i \in 1..Len(directory) :
         ConstructionFails(directory[i]) =>
           /\ ~RegisteredByLastLoad(i)
           /\ Cardinality(EntriesNaming(i)) = 1
           /\ \A k \in EntriesNaming(i) :
                /\ LoadLog[k].err # NoError
                /\ LoadLog[k].description = FailedToLoadMessageStart \o FileName(i)
    /\ \A i \in 1..Len(directory) : Processed(i)
    /\ InSourceOrder
    /\ \A k \in 1..Len(LoadLog) : \E i \in 1..Len(directory) : NamesFile(LoadLog[k], i)
    /\ commands_ = ret.userCommands \o BuiltIns(reloadAction_)
    /\ settingsCategory_.type = "CATEGORY"
    /\ unhandled = <<>>

\* C4 witness: a load has completed over a directory in which a source that
\* fails construction is followed by one that was registered.
C4_Witness ==
  /\ ret.op = "load.then"
  /\ \E i, j \in 1..Len(directory) :
       i < j /\ ConstructionFails(directory[i]) /\ RegisteredByLastLoad(j)

\* the commands the registry held when the last load.then callback came to
\* the j-th file
RegisteredBefore(j) ==
  {ret.userCommands[k] : k \in 1..Len(ret.before)}
    \cup {ret.userCommands[k] : k \in {l \in (Len(ret.before) + 1)..Len(ret.userCommands) :
                                        \E i \in 1..(j - 1) :
                                          ret.userCommands[l].origin = FileName(i)}}

AliasTakenBefore(j, alias) == \E c \in RegisteredBefore(j) : Includes(c.aliases, alias)

IdTakenBefore(j) ==
  /\ Truthy(directory[j].uniqueId)
  /\ \E c \in RegisteredBefore(j) : c.uniqueId = directory[j].uniqueId

FirstTakenAlias(j) ==
  LET aliases == Aliases(directory[j])
  IN aliases[CHOOSE m \in 1..Len(aliases) :
               /\ AliasTakenBefore(j, aliases[m])
               /\ \A n \in 1..(m - 1) : ~AliasTakenBefore(j, aliases[n])]

AliasNotUnique(j, alias) ==
  FailedToLoadMessageStart \o FileName(j) \o <<". Error: alias: ">> \o alias
    \o <<" is not unique">>

UniqueIdNotUnique(j) ==
  FailedToLoadMessageStart \o FileName(j) \o <<". Error: uniqueId: ">>
    \o directory[j].uniqueId \o <<" not unique">>

\* two sources, the i-th before the j-th, that construct and share an alias
SharingPair(i, j) ==
  /\ i < j
  /\ ~ConstructionFails(directory[i])
  /\ ~ConstructionFails(directory[j])
  /\ SharesAlias(directory[i], directory[j])

\* C5, as stated: of every two sources that share an alias the load registers
\* the earlier one and not the later one, writes one failure entry with the
\* file of the later one and the shared alias, and goes on with the rest.
C5_ExactlyTheEarlierOfEachPair ==
  ret.op = "load.then" =>
    \A i, j \in 1..Len(directory) :
      SharingPair(i, j) =>
        /\ Registered(i)
        /\ ~Registered(j)
        /\ Cardinality(EntriesNaming(j)) = 1
        /\ \A k \in EntriesNaming(j) :
             \E a \in 1..Len(directory[j].commandAliases) :
               /\ Includes(Aliases(directory[i]), Aliases(directory[j])[a])
               /\ LoadLog[k].description = AliasNotUnique(j, Aliases(directory[j])[a])
        /\ \A m \in (j + 1)..Len(directory) : Processed(m)

\* C5, amended: of two sources that share an alias, when the earlier one is
\* registered the later one is not; one failure entry is written with the
\* file of the later one, naming its first alias that a registered command
\* has, or its uniqueId when that is taken too; the load goes on with the rest.
C5_LaterOfARegisteredPairIsSkipped ==
  ret.op = "load.then" =>
    \A i, j \in 1..Len(directory) :
      SharingPair(i, j) /\ Registered(i) =>
        /\ ~Registered(j)
        /\ Cardinality(EntriesNaming(j)) = 1
        /\ \A k \in EntriesNaming(j) :
             /\ LoadLog[k].err = NoError
             /\ LoadLog[k].description =
                  IF IdTakenBefore(j) THEN UniqueIdNotUnique(j)
                  ELSE AliasNotUnique(j, FirstTakenAlias(j))
        /\ \A m \in (j + 1)..Len(directory) : Processed(m)

\* C5 witness: a load has registered a source, skipped a later one that
\* shares an alias with it, and registered a source that follows.
C5_Witness ==
  /\ ret.op = "load.then"
  /\ \E i, j, m \in 1..Len(directory) :
       /\ SharingPair(i, j)
       /\ j < m
       /\ RegisteredByLastLoad(i)
       /\ ~Registered(j)
       /\ RegisteredByLastLoad(m)

\* every source constructs, no two share an alias or a uniqueId
ValidAndDisjoint(files) ==
  /\ \A i \in 1..Len(files) : ~ConstructionFails(files[i])
  /\ \A i, j \in 1..Len(files) :
       i # j =>
         /\ ~SharesAlias(files[i], files[j])
         /\ (Truthy(files[i].uniqueId) => files[i].uniqueId # files[j].uniqueId)

\* C6: over n valid sources with pairwise disjoint aliases and unique
\* identifiers, a completed load leaves the n user commands in source order,
\* then allow, unrestrict, ban and settings, then reload exactly when a reload
\* action was supplied: n+4 or n+5 commands, and no failure is logged.
C6_DisjointSourcesAllRegistered ==
  ret.op = "load.then" /\ ValidAndDisjoint(directory) =>
    /\ commands_ = [i \in 1..Len(directory) |-> Command(directory[i], FileName(i))]
                     \o BuiltIns(reloadAction_)
    /\ Len(commands_) = Len(directory) + (IF reloadAction_ THEN 5 ELSE 4)
    /\ LoadLog = <<>>

\* C10: after a completed load the settings category is the node 'commands'
\* whose children are one boolean leaf <first alias>_enabled, default true,
\* per registered user-defined command, in registration order, and no other.
C10_OneLeafPerUserCommand ==
  ret.op = "load.then" =>
    /\ settingsCategory_.type = "CATEGORY"
    /\ settingsCategory_.name = "commands"
    /\ Len(settingsCategory_.children) = Len(UserDefined(commands_))
    /\ \A k \in 1..Len(UserDefined(commands_)) :
         /\ settingsCategory_.children[k].type = "SETTING"
         /\ settingsCategory_.children[k].valueType = "BOOLEAN"
         /\ settingsCategory_.children[k].defaultDatabaseFacingValue = TRUE
         /\ settingsCategory_.children[k].name =
              UserDefined(commands_)[k].aliases[1] \o <<"_enabled">>

---------------------------------------------------------------------------
(* The parsing of a message: a loaded manager is given one message *)

MsgChars == {"a", "A", "b", Space, IdeographicSpace}

ParseMessages == UNION { [1..n -> MsgChars] : n \in 0..MaxMsgLen }

\* a directory of at most one file, loaded
InitParse ==
  /\ directory \in {d \in Directories : Len(d) <= 1}
  /\ reloadAction_ \in BOOLEAN
  /\ hostConfig = NoConfig
  /\ LET loaded == LoadFiles(directory, 1, <<>>, <<>>)
     IN /\ commands_ = loaded.commands \o BuiltIns(reloadAction_)
        /\ settingsCategory_ = createSettingsCategoryForCommands(loaded.commands)
        /\ logger_ = loaded.log
        /\ ret = [op |-> "load.then",
                  call |-> [registry |-> <<>>, settingsCategory |-> NoSettingsCategory],
                  before |-> <<>>, logged |-> 0, userCommands |-> loaded.commands]
  /\ channel = <<>>
  /\ pendingLoads = <<>>
  /\ inFlight = <<>>
  /\ unhandled = <<>>
  /\ callsLeft = 1

\* (the guard of processInput, stated once more before the messages are drawn)
NextParse ==
  \/ callsLeft > 0 /\ \E content \in ParseMessages : ProcessInputUnmatched(content)
  \/ callsLeft > 0 /\ \E content \in ParseMessages : ProcessInputHandOff(content)

SpecParse == InitParse /\ [][NextParse]_vars

---------------------------------------------------------------------------
(* Properties of the dispatcher *)

\* the registry a load of the directory builds from nothing
FreshRegistry ==
  LoadFiles(directory, 1, <<>>, <<>>).commands \o BuiltIns(reloadAction_)

Claims(commands, commandText) ==
  \E k \in 1..Len(commands) : Includes(commands[k].aliases, commandText)

\* C2: a processInput call made while a reload of a populated registry is
\* pending scans the registry published before or the one the reload builds,
\* never an empty or partial one: a message whose alias is registered before
\* and after the reload is claimed.
C2_ClaimedThroughoutReload ==
  ret.op = "processInput" =>
    \A k \in 1..Len(pendingLoads) :
      pendingLoads[k].registry # <<>> =>
        /\ commands_ \in {pendingLoads[k].registry, FreshRegistry}
        /\ (/\ Claims(pendingLoads[k].registry, ret.commandText)
            /\ Claims(FreshRegistry, ret.commandText)
            => ret.returned # "false")

\* C7: processInput returns true exactly when a registered command has the
\* lower-cased command token among its aliases; when it returns false no
\* handler was invoked, nothing was logged or sent, and the registry and the
\* settings category are as before.
C7_TrueIffClaimedAndFalseChangesNothing ==
  [][ ret'.op = "processInput" /\ callsLeft' # callsLeft =>
        /\ (ret'.returned = "true") <=> Claims(commands_, ret'.commandText)
        /\ (ret'.returned = "false" =>
              /\ ~ret'.handled
              /\ UNCHANGED <<commands_, settingsCategory_, logger_, channel,
                             inFlight, unhandled>>) ]_vars

\* C8: whatever a matched handler throws or rejects with, nothing escapes:
\* processInput returns true, and no rejection is left unhandled.
C8_NoFailureEscapes ==
  /\ unhandled = <<>>
  /\ (ret.op = "processInput" /\ ret.handled => ret.returned = "true")

\* an upper-case letter with its lower-case letter
CasePairs == {<<"A", "a">>, <<"B", "b">>}

\* t is s with every upper-case letter replaced by its lower-case letter
IsLowerCased(t, s) ==
  /\ Len(t) = Len(s)
  /\ \A i \in 1..Len(s) :
       IF \E pair \in CasePairs : pair[1] = s[i]
       THEN <<s[i], t[i]>> \in CasePairs
       ELSE t[i] = s[i]

\* n is s with its first full-width space, if it has one, made a space
IsNormalised(n, s) ==
  IF \E p \in 1..Len(s) : s[p] = IdeographicSpace
  THEN \E p \in 1..Len(s) :
         /\ s[p] = IdeographicSpace
         /\ \A q \in 1..(p - 1) : s[q] # IdeographicSpace
         /\ n = [s EXCEPT ![p] = Space]
  ELSE n = s

\* t is s without the white space at its two ends
IsTrimmed(t, s) ==
  \E a \in 0..Len(s) : \E b \in a..Len(s) :
    /\ t = SubSeq(s, a + 1, b)
    /\ \A q \in 1..a : s[q] \in WhiteSpace
    /\ \A q \in (b + 1)..Len(s) : s[q] \in WhiteSpace
    /\ (t # <<>> => t[1] \notin WhiteSpace /\ t[Len(t)] \notin WhiteSpace)

\* the message n splits into the text before its first space and the text
\* after it; without a space it is all before
SplitsInto(n, before, after) ==
  IF \E p \in 1..Len(n) : n[p] = Space
  THEN \E p \in 1..Len(n) :
         /\ n[p] = Space
         /\ \A q \in 1..(p - 1) : n[q] # Space
         /\ before = SubSeq(n, 1, p - 1)
         /\ after = SubSeq(n, p + 1, Len(n))
  ELSE before = n /\ after = <<>>

Normalisations(s) == {s} \cup {[s EXCEPT ![p] = Space] : p \in 1..Len(s)}

Prefixes(s) == {SubSeq(s, 1, p) : p \in 0..Len(s)}

Suffixes(s) == {SubSeq(s, p + 1, Len(s)) : p \in 0..Len(s)}

\* C9: processInput makes one full-width space a space and splits the message
\* at its first space: the command token is the text before it, lower-cased
\* (the whole text without a space), the suffix handed to the handler is the
\* text after it, trimmed (empty without a space); so a message whose token
\* is a registered lower-case alias up to letter case selects a command that
\* has this alias.
C9_TokenAndSuffix ==
  ret.op = "processInput" =>
    \E n \in {m \in Normalisations(ret.content) : IsNormalised(m, ret.content)} :
      \E before \in Prefixes(n) : \E after \in {x \in Suffixes(n) : SplitsInto(n, before, x)} :
        /\ IsLowerCased(ret.commandText, before)
        /\ (ret.handled => IsTrimmed(ret.suffix, after))
        /\ \A k \in 1..Len(commands_) : \A a \in 1..Len(commands_[k].aliases) :
             LET alias == commands_[k].aliases[a]
             IN IsLowerCased(alias, before) =>
                  /\ ret.handled
                  /\ \E c \in 1..Len(commands_) :
                       /\ commands_[c].origin = ret.command
                       /\ Includes(commands_[c].aliases, alias)

\* C9 witness: a message in upper case with two full-width spaces was handed
\* to the command with the lower-case alias, the second full-width space in
\* its suffix.
C9_Witness ==
  /\ ret.op = "processInput"
  /\ ret.handled
  /\ ret.content = <<"A", IdeographicSpace, "b", IdeographicSpace, "a">>
  /\ ret.commandText = <<"a">>
  /\ ret.suffix = <<"b", IdeographicSpace, "a">>

---------------------------------------------------------------------------
(* The classification of failures: a loaded manager with one user command
   is given messages whose handlers fail in every way *)

\* what a handler throws, or its promise rejects with
ClassifyErrors ==
  { PublicError(p, d, c) : p \in {Undefined, EmptyString, <<"public">>},
                           d \in {Undefined, <<"described">>},
                           c \in {Undefined, <<"cause">>} }
    \cup { ErrorObject(p, d, m) : p \in {Undefined, <<"public">>},
                                  d \in {Undefined, <<"described">>},
                                  m \in { <<"boom">>,
                                          <<"DiscordRESTError: ", MissingPermissions>> } }
    \cup { ThrownString(<<"oops">>) }

ClassifyResults == {Undefined, ObjectValue, EmptyString, <<"text">>}

ClassifyMessages == { <<"a">>, <<"A", Space, "b">> }

InitClassify ==
  /\ directory = << [loads |-> TRUE, commandAliases |-> << <<"a">> >>, uniqueId |-> Undefined] >>
  /\ reloadAction_ = FALSE
  /\ hostConfig \in Configs
  /\ LET loaded == LoadFiles(directory, 1, <<>>, <<>>)
     IN /\ commands_ = loaded.commands \o BuiltIns(reloadAction_)
        /\ settingsCategory_ = createSettingsCategoryForCommands(loaded.commands)
        /\ logger_ = loaded.log
        /\ ret = [op |-> "load.then",
                  call |-> [registry |-> <<>>, settingsCategory |-> NoSettingsCategory],
                  before |-> <<>>, logged |-> 0, userCommands |-> loaded.commands]
  /\ channel = <<>>
  /\ pendingLoads = <<>>
  /\ inFlight = <<>>
  /\ unhandled = <<>>
  /\ callsLeft = MaxClassifyCalls

NextClassify ==
  \/ \E content \in ClassifyMessages : ProcessInputHandOff(content)
  \/ \E content \in ClassifyMessages, err \in ClassifyErrors :
       ProcessInputThrows(content, err)
  \/ \E i \in 1..MaxClassifyCalls + 1, result \in ClassifyResults : HandlerResolves(i, result)
  \/ \E i \in 1..MaxClassifyCalls + 1, err \in ClassifyErrors : HandlerRejects(i, err)

SpecClassify == InitClassify /\ [][NextClassify]_vars

---------------------------------------------------------------------------
(* Properties of the error classifier *)

\* the last step was a handler failure handed to handleCommandError
Classified ==
  \/ ret.op = "handle.catch"
  \/ ret.op = "processInput" /\ ret.err # NoError

\* the message of the last step
FailedMsg == IF ret.op = "processInput" THEN ret.content ELSE ret.msg

\* what the last step wrote and sent
Written == SubSeq(logger_, ret.logged + 1, Len(logger_))

Sent == SubSeq(channel, ret.sent + 1, Len(channel))

InputReactions == {k \in 1..Len(Written) : Written[k].fn = "logInputReaction"}

Failures == {k \in 1..Len(Written) : Written[k].fn = "logFailure"}

\* the text of an error: its message, and a thrown string itself
TextOf(err) == IF err.type = "string" THEN err.text ELSE err.message

IndicatesMissingPermissions(err) ==
  \E k \in 1..Len(TextOf(err)) : TextOf(err)[k] = "Missing Permissions"

\* the public message the rules of the classifier resolve
ResolvedPublicMessage(err, config) ==
  IF Truthy(err.publicMessage) THEN err.publicMessage
  ELSE IF IndicatesMissingPermissions(err) /\ Truthy(config.missingPermissionsErrorMessage)
       THEN config.missingPermissionsErrorMessage
       ELSE config.genericErrorMessage

\* the log description the rules of the classifier resolve
ResolvedLogDescription(err, config) ==
  IF Truthy(err.logDescription) THEN err.logDescription
  ELSE IF /\ ~Truthy(err.publicMessage)
          /\ IndicatesMissingPermissions(err)
          /\ Truthy(config.missingPermissionsErrorMessage)
       THEN <<"Missing permissions">>
       ELSE <<"Exception or promise rejection">>

\* C11: for every error and host configuration the classifier resolves the
\* public message as the error's own, else the configured permissions message
\* when the error text contains 'Missing Permissions' and the option is set,
\* else the configured generic message, which may be absent; and the log
\* description as the error's own, else 'Missing permissions' when the
\* permissions rule gave the public message, else 'Exception or promise
\* rejection'.  What it resolves is what it sends and logs.
C11_ClassificationRules ==
  Classified =>
    /\ Sent = (IF Truthy(ResolvedPublicMessage(ret.err, hostConfig))
               THEN <<ResolvedPublicMessage(ret.err, hostConfig)>> ELSE <<>>)
    /\ \E k \in InputReactions :
         Written[k].description = ResolvedLogDescription(ret.err, hostConfig)

\* the last step was the completion of a claimed invocation
Completed == ret.op = "handle.then" \/ Classified

\* C12, as stated: the completion of a claimed invocation, whether its
\* handler succeeds or fails, triggers exactly one log write and at most one
\* transport send.
C12_ExactlyOneLogWrite ==
  Completed => Len(Written) = 1 /\ Len(Sent) <= 1

\* C12, amended: the completion of a claimed invocation triggers at most one
\* input-reaction entry, at most one failure entry, no other log write, and
\* at most one transport send, all about the message of that invocation; the
\* completion of a handler that succeeds triggers exactly one log write and
\* no send.
C12_AtMostOneOfEachKind ==
  Completed =>
    /\ Cardinality(InputReactions) <= 1
    /\ Cardinality(Failures) <= 1
    /\ Len(Written) = Cardinality(InputReactions) + Cardinality(Failures)
    /\ Len(Sent) <= 1
    /\ \A k \in InputReactions : Written[k].msg = FailedMsg
    /\ \A k \in Failures :
         SubSeq(Written[k].description, 2, 1 + Len(FailedMsg)) = FailedMsg
    /\ (ret.op = "handle.then" => Len(Written) = 1 /\ Sent = <<>>)

\* C12 witness: a handler has failed, and its completion wrote an
\* input-reaction entry and a failure entry and sent one message.
C12_Witness ==
  /\ Classified
  /\ Cardinality(InputReactions) = 1
  /\ Cardinality(Failures) = 1
  /\ Len(Sent) = 1

\* the input-reaction entries of the whole log
AllInputReactions == {k \in 1..Len(logger_) : logger_[k].fn = "logInputReaction"}

\* C13: a claimed invocation whose handler fails produces an input-reaction
\* entry with success=false, and a transport send of the public message
\* exactly when one was resolved; an invocation whose handler has not
\* settled has produced no entry and no send (there are no more entries and
\* sends than calls made less invocations pending), and while it is pending
\* a processInput call with a registered alias is still handed off.
C13_FailuresLoggedPendingSilent ==
  /\ Classified =>
       /\ \E k \in InputReactions : Written[k].success = FALSE /\ Written[k].msg = FailedMsg
       /\ Sent = (IF Truthy(ResolvedPublicMessage(ret.err, hostConfig))
                  THEN <<ResolvedPublicMessage(ret.err, hostConfig)>> ELSE <<>>)
  /\ Cardinality(AllInputReactions) + Len(inFlight) <= MaxCalls - callsLeft
  /\ Len(channel) + Len(inFlight) <= MaxCalls - callsLeft
  /\ (inFlight # <<>> /\ callsLeft > 0 =>
        \A content \in SystemMessages :
          Claims(commands_, CommandText(content)) => ENABLED ProcessInputHandOff(content))

\* C15, as stated: the cause handed to the failure log is the internal cause
\* of the error if one is attached and the error itself otherwise; as every
\* failure then has a cause, every failure writes a failure entry.
C15_CauseIsInternalElseError ==
  Classified =>
    LET cause == IF ret.err.internalErr # Undefined
                 THEN PlainError(ret.err.internalErr) ELSE ret.err
    IN /\ Cardinality(Failures) = 1
       /\ \A k \in Failures : Written[k].err = cause

\* C15, amended: the cause is, for a PublicError, its internal cause, none
\* when none is attached, and for any other error the error itself; a failure
\* entry is written only when a cause exists, with that cause, and for a
\* PublicError exactly when an internal cause is attached.
C15_CauseOfPublicErrorIsInternal ==
  Classified =>
    LET cause == IF ~ret.err.isPublicError THEN ret.err
                 ELSE IF ret.err.internalErr # Undefined
                      THEN PlainError(ret.err.internalErr) ELSE NoError
    IN /\ Cardinality(Failures) <= 1
       /\ \A k \in Failures : cause # NoError /\ Written[k].err = cause
       /\ (ret.err.isPublicError =>
             (Failures # {} <=> ret.err.internalErr # Undefined))

\* C15 witness: a handler has failed with a PublicError that has a log
\* description and no internal cause; the failure was logged as an input
\* reaction, and no failure entry was written.
C15_Witness ==
  /\ Classified
  /\ ret.err.isPublicError
  /\ ret.err.logDescription = <<"described">>
  /\ ret.err.internalErr = Undefined
  /\ InputReactions # {}
  /\ Failures = {}

---------------------------------------------------------------------------
(* Properties of the hand-off *)

\* C14: when a matched handler completes asynchronously, processInput returns
\* true before the completion is observed: the call writes and sends nothing
\* and leaves the invocation pending; the entry of an invocation is written
\* by a later step, which takes it from the pending ones and leaves the
\* other pending invocations, handed off in between, as they are.
C14_ReturnsBeforeCompletion ==
  [][ /\ (ret'.op = "processInput" /\ callsLeft' # callsLeft
             /\ ret'.handled /\ ret'.err = NoError =>
            /\ ret'.returned = "true"
            /\ logger_' = logger_
            /\ channel' = channel
            /\ inFlight' = Append(inFlight, [msg |-> ret'.content]))
      /\ (ret'.op \in {"handle.then", "handle.catch"} =>
            /\ ret'.index \in 1..Len(inFlight)
            /\ inFlight[ret'.index].msg = ret'.msg
            /\ inFlight' = SubSeq(inFlight, 1, ret'.index - 1)
                             \o SubSeq(inFlight, ret'.index + 1, Len(inFlight))
            /\ \A k \in (Len(logger_) + 1)..Len(logger_') :
                 logger_'[k].fn = "logInputReaction" => logger_'[k].msg = ret'.msg
            /\ callsLeft' = callsLeft) ]_vars

\* C14 witness: the completion of an invocation has been logged while an
\* invocation that was handed off after it is still pending.
C14_Witness ==
  /\ ret.op \in {"handle.then", "handle.catch"}
  /\ ret.index = 1
  /\ Len(logger_) > ret.logged
  /\ inFlight # <<>>

---------------------------------------------------------------------------
(* More properties of the loader *)

\* C16: once every load() that was called has completed, also when a second
\* one was called before the directory enumeration of the first resolved,
\* the registry is what one load of the sources builds: every user command
\* and every built-in once, and the settings category has the leaves of the
\* user commands only.
C16_OverlappingLoadsBuildOneRegistry ==
  ret.op = "load.then" /\ pendingLoads = <<>> =>
    /\ commands_ = FreshRegistry
    /\ \A i, j \in 1..Len(commands_) : i # j => commands_[i].origin # commands_[j].origin
    /\ Len(settingsCategory_.children) = Len(UserDefined(commands_))
    /\ \A k \in 1..Len(settingsCategory_.children) :
         /\ k <= Len(UserDefined(commands_))
         /\ settingsCategory_.children[k].name =
              UserDefined(commands_)[k].aliases[1] \o <<"_enabled">>

\* the two texts are equal up to the case of their letters
EqualUpToCase(s, t) ==
  /\ Len(s) = Len(t)
  /\ \A i \in 1..Len(s) :
       s[i] = t[i] \/ <<s[i], t[i]>> \in CasePairs \/ <<t[i], s[i]>> \in CasePairs

\* an alias the j-th source declares is, up to case, an alias of a command
\* the registry held when the last load.then callback came to the j-th file
CollidesUpToCase(j) ==
  \E c \in RegisteredBefore(j) :
    \E a \in 1..Len(directory[j].commandAliases), b \in 1..Len(c.aliases) :
      EqualUpToCase(directory[j].commandAliases[a], c.aliases[b])

SameIdPair(i, j) ==
  /\ i < j
  /\ ~ConstructionFails(directory[i])
  /\ ~ConstructionFails(directory[j])
  /\ directory[i].uniqueId \notin {Undefined, EmptyString}
  /\ directory[i].uniqueId = directory[j].uniqueId

\* the entry reports a uniqueId that is not unique
ReportsUniqueId(entry) ==
  \E m \in 1..Len(entry.description) : entry.description[m] = ". Error: uniqueId: "

\* a source without a uniqueId is not reported for its uniqueId
NoIdNoIdReport ==
  \A j \in 1..Len(directory) :
    directory[j].uniqueId \in {Undefined, EmptyString} =>
      \A k \in EntriesNaming(j) : ~ReportsUniqueId(LoadLog[k])

\* C19, as stated: of every two sources with the same non-empty uniqueId the
\* load registers the earlier one and not the later one and writes one failure
\* entry for the later one, which reports the uniqueId also when an alias
\* collides as well; a source without a uniqueId is never reported for it.
C19_OnlyTheEarlierOfSameId ==
  ret.op = "load.then" =>
    /\ \A i, j \in 1..Len(directory) :
         SameIdPair(i, j) =>
           /\ Registered(i)
           /\ ~Registered(j)
           /\ Cardinality(EntriesNaming(j)) = 1
           /\ \A k \in EntriesNaming(j) : LoadLog[k].description = UniqueIdNotUnique(j)
    /\ NoIdNoIdReport

\* C19, amended: of two sources with the same non-empty uniqueId, when the
\* earlier one is registered the later one is not, and one failure entry is
\* written for it, which reports the uniqueId also when an alias collides
\* as well; a source without a uniqueId is never reported for it.
C19_LaterOfARegisteredIdIsSkipped ==
  ret.op = "load.then" =>
    /\ \A i, j \in 1..Len(directory) :
         SameIdPair(i, j) /\ Registered(i) =>
           /\ ~Registered(j)
           /\ Cardinality(EntriesNaming(j)) = 1
           /\ \A k \in EntriesNaming(j) :
                /\ LoadLog[k].err = NoError
                /\ LoadLog[k].description = UniqueIdNotUnique(j)
    /\ NoIdNoIdReport

\* C19 witness: a load has registered a source and skipped a later one that
\* has both its uniqueId and its alias, reporting the uniqueId.
C19_Witness ==
  /\ ret.op = "load.then"
  /\ \E i, j \in 1..Len(directory) :
       /\ SameIdPair(i, j)
       /\ SharesAlias(directory[i], directory[j])
       /\ RegisteredByLastLoad(i)
       /\ ~Registered(j)
       /\ \E k \in EntriesNaming(j) : LoadLog[k].description = UniqueIdNotUnique(j)

---------------------------------------------------------------------------
(* More properties of the dispatcher *)

\* C18: processInput selects the first command, in registration order, that
\* has the command token among its aliases; a second call with the same text
\* on the same registry selects the same command; when a user-defined
\* command has the token it is a user-defined command that is selected, so a
\* built-in command sharing the alias is not reached.
C18_FirstInRegistrationOrder ==
  [][ /\ (ret'.op = "processInput" /\ callsLeft' # callsLeft /\ ret'.handled =>
            /\ ret'.index \in 1..Len(commands_)
            /\ Includes(commands_[ret'.index].aliases, ret'.commandText)
            /\ \A j \in 1..(ret'.index - 1) :
                 ~Includes(commands_[j].aliases, ret'.commandText)
            /\ ret'.command = commands_[ret'.index].origin
            /\ ((\E k \in 1..Len(commands_) :
                    /\ IsUserCommand(commands_[k])
                    /\ Includes(commands_[k].aliases, ret'.commandText))
                 => IsUserCommand(commands_[ret'.index])))
      /\ (/\ ret.op = "processInput"
          /\ ret'.op = "processInput"
          /\ callsLeft' # callsLeft
          /\ ret'.content = ret.content
          => ret'.index = ret.index /\ ret'.command = ret.command) ]_vars

\* C18 witness: the registry holds a user-defined command with the alias of
\* the built-in allow command, and a message with this alias was handed to
\* the user-defined command.
C18_Witness ==
  /\ ret.op = "processInput"
  /\ ret.handled
  /\ ret.commandText = AllowAlias
  /\ ret.command = FileName(1)
  /\ \E k \in 1..Len(commands_) :
       commands_[k].origin = <<"AllowCommand">> /\ Includes(commands_[k].aliases, AllowAlias)

\* C20: when a matched handler completes without failing, one input-reaction
\* entry is written for it and nothing is sent; the entry has success=true
\* unless the result is a string, and then success=false and the string as
\* its description; the error classifier is not involved: no failure entry.
C20_SuccessIsLoggedOnce ==
  ret.op = "handle.then" =>
    /\ Len(Written) = 1
    /\ Written[1].fn = "logInputReaction"
    /\ Written[1].msg = ret.msg
    /\ Written[1].success = (ret.result \in {Undefined, ObjectValue})
    /\ Written[1].description = ret.result
    /\ Sent = <<>>

\* C20 witness: a handler has completed with a string, and the entry written
\* for it has success=false and the string as its description.
C20_Witness ==
  /\ ret.op = "handle.then"
  /\ ret.result = <<"text">>
  /\ Len(Written) = 1
  /\ Written[1].success = FALSE
  /\ Written[1].description = <<"text">>

====
